---- MODULE Spec2Model ----
(***************************************************************************)
(* A model of translate-tools: the text segmenter (ext_api/helpers.py),    *)
(* the parallel orchestrator (ext_api/parallel.py) and the sequence        *)
(* planner (ext_api/translate.py).  Strings are sequences of one-character *)
(* strings.  Each component has its own specification; the variables of    *)
(* the components a specification does not run stay at their idle values.  *)
(***************************************************************************)
EXTENDS Integers, Sequences, FiniteSets, TLC

VARIABLES
    \* split_into_parts
    text, target_length, parsable_lines, paragraphs, origin, splitPc,
    \* parallel_sequenced_translate
    queries, capability, pool_size, callback, futures, results, exceptions,
    progress, notified, outcome, parPc, overtook,
    \* get_random_sequence
    graph, start, end, steps, disabled_languages, allow_self_translation,
    stack, sequence, planPc,
    \* identify_invalid_sequence
    validIdx, validResult, validPc,
    \* translate_sequenced
    tsInput, tsQuery, tsIdx, tsOutcome, tsPc,
    \* translate_sequence_segmented
    segOutcome, segPc,
    \* install_all_packages
    new_packages, excluded_languages, excluded_translations, packages, workers,
    completed_installs, reported, installed, instReturn, instPc

splitVars == <<text, target_length, parsable_lines, paragraphs, origin, splitPc>>

parVars == <<queries, capability, pool_size, callback, futures, results, exceptions,
             progress, notified, outcome, parPc, overtook>>

planVars == <<graph, start, end, steps, disabled_languages, allow_self_translation,
              stack, sequence, planPc>>

validVars == <<validIdx, validResult, validPc>>

chainVars == <<tsInput, tsQuery, tsIdx, tsOutcome, tsPc>>

segVars == <<segOutcome, segPc>>

instVars == <<new_packages, excluded_languages, excluded_translations, packages, workers,
              completed_installs, reported, installed, instReturn, instPc>>

vars == <<splitVars, parVars, planVars, validVars, chainVars, segVars, instVars>>

----------------------------------------------------------------------------
(* The components that are not called *)

IdleValid ==
    /\ validIdx = 0
    /\ validResult = [none |-> TRUE]
    /\ validPc = "idle"

IdleChain ==
    /\ tsInput = <<>>
    /\ tsQuery = <<>>
    /\ tsIdx = 0
    /\ tsOutcome = [kind |-> "none"]
    /\ tsPc = "idle"

IdleSeg ==
    /\ segOutcome = [kind |-> "none"]
    /\ segPc = "idle"

IdleInst ==
    /\ new_packages = {}
    /\ excluded_languages = {}
    /\ excluded_translations = {}
    /\ packages = {}
    /\ workers = <<>>
    /\ completed_installs = 0
    /\ reported = <<>>
    /\ installed = {}
    /\ instReturn = [none |-> TRUE]
    /\ instPc = "idle"

----------------------------------------------------------------------------
(* Bounds *)

MaxLen == 5
MaxTarget == 3
MaxQueries == 3
MaxEdges == 2
MaxPool == 2
MaxSteps == 3
MaxDisabled == 1

----------------------------------------------------------------------------
(* Characters and strings *)

SP == " "
LF == "\n"
CR == "\r"
Chars == {"a", SP, LF, CR}

RECURSIVE StringsUpTo(_)
StringsUpTo(n) ==
    IF n = 0 THEN {<<>>}
    ELSE LET shorter == StringsUpTo(n - 1)
         IN  shorter \cup {Append(s, c) : s \in {t \in shorter : Len(t) = n - 1}, c \in Chars}

Drop(s, n) == IF n >= Len(s) THEN <<>> ELSE SubSeq(s, n + 1, Len(s))
Take(s, n) == IF n >= Len(s) THEN s ELSE SubSeq(s, 1, n)

\* Length of the first physical line of a non-empty string, line break included:
\* str.splitlines breaks after "\n", after "\r\n" and after a lone "\r".
RECURSIVE FirstLineLen(_, _)
FirstLineLen(s, i) ==
    IF i > Len(s) THEN Len(s)
    ELSE IF s[i] = LF THEN i
    ELSE IF s[i] = CR THEN (IF i < Len(s) /\ s[i + 1] = LF THEN i + 1 ELSE i)
    ELSE FirstLineLen(s, i + 1)

\* text.splitlines(keepends=True)
RECURSIVE splitlines(_)
splitlines(s) ==
    IF s = <<>> THEN <<>>
    ELSE LET n == FirstLineLen(s, 1)
         IN  <<Take(s, n)>> \o splitlines(Drop(s, n))

\* Index of the first sep in s at or after i, 0 when there is none.
RECURSIVE Find(_, _, _)
Find(s, sep, i) ==
    IF i > Len(s) THEN 0
    ELSE IF s[i] = sep THEN i
    ELSE Find(s, sep, i + 1)

\* s.split(sep) for a one-character sep: "" splits to [""].
RECURSIVE split(_, _)
split(s, sep) ==
    LET k == Find(s, sep, 1)
    IN  IF k = 0 THEN <<s>>
        ELSE <<Take(s, k - 1)>> \o split(Drop(s, k), sep)

\* sep.join(parts)
RECURSIVE join(_, _)
join(sep, parts) ==
    IF parts = <<>> THEN <<>>
    ELSE IF Len(parts) = 1 THEN parts[1]
    ELSE parts[1] \o <<sep>> \o join(sep, Tail(parts))

\* "".join(parts)
RECURSIVE concat(_)
concat(parts) ==
    IF parts = <<>> THEN <<>> ELSE parts[1] \o concat(Tail(parts))

----------------------------------------------------------------------------
(* parallel_sequenced_translate *)

Texts == {"p", "q"}

\* A text is its source string and the edges it has been translated through:
\* the capabilities are opaque, so an output is told apart by its input and
\* the order of the capabilities applied to it.
Text(src) == [src |-> src, via |-> <<>>]

\* translation.translate(query) of the capability of edge j
translate(j, query) == [query EXCEPT !.via = Append(@, j)]

\* What a task returns for query q when nothing fails: every edge in order.
RECURSIVE Chain(_, _)
Chain(q, j) == IF j = 0 THEN q ELSE translate(j, Chain(q, j - 1))

None == [none |-> TRUE]
NoExc == [kind |-> "none"]

NumEdges == Len(capability)
NumQueries == Len(queries)

\* _translate_sequence_part(query, translation, langs): the body of the loop
\* of translate_sequenced: a missing capability raises InvalidTranslationError,
\* a raising capability raises TranslationFailedError, each with the edge and
\* the query as it was.
_translate_sequence_part(query, j, raises) ==
    IF ~capability[j]
    THEN [ok |-> FALSE, value |-> query,
          exc |-> [kind |-> "InvalidTranslationError", edge |-> j, query |-> query]]
    ELSE IF raises
    THEN [ok |-> FALSE, value |-> query,
          exc |-> [kind |-> "TranslationFailedError", edge |-> j, query |-> query]]
    ELSE [ok |-> TRUE, value |-> translate(j, query), exc |-> NoExc]

\* ProgressCounter.increment(): one atomic step adds one to the state; the
\* callback, when registered, sees the counter as it is then.
increment(p) == [p EXCEPT !.state = @ + 1]

Notify(log, p) == IF callback THEN Append(log, p.state) ELSE log

\* pool.submit(_parallel_translate_task, q, sequence, progress) for q = queries[k],
\* with every task given the last query.
SubmittedLast(k) ==
    [st |-> "queued", query |-> Text(queries[NumQueries]), pos |-> 1, exc |-> NoExc]

\* pool.submit(_parallel_translate_task, q, sequence, progress) for q = queries[k]
Submitted(k) ==
    [st |-> "queued", query |-> Text(queries[k]), pos |-> 1, exc |-> NoExc]

\* Worker threads that stay busy after their task has ended.
RunningNeverFreed == {i \in 1..Len(futures) : futures[i].st # "queued"}

Running == {i \in 1..Len(futures) : futures[i].st \in {"translate", "increment"}}

\* A worker thread takes a queued task with queued tasks left unstarted once
\* a sibling has raised.
CanStartUnlessFailed(i) ==
    /\ futures[i].st = "queued"
    /\ \A j \in 1..(i - 1) : futures[j].st # "queued"
    /\ Cardinality(Running) < pool_size
    /\ \A j \in 1..Len(futures) : futures[j].st # "raised"

\* ThreadPoolExecutor: an idle worker thread takes the oldest queued work item;
\* at most pool_size threads exist.
CanStart(i) ==
    /\ futures[i].st = "queued"
    /\ \A j \in 1..(i - 1) : futures[j].st # "queued"
    /\ Cardinality(Running) < pool_size

\* The task's loop with progress.increment() after the loop instead of in it.
AfterPartIncrementOnce(t, part) ==
    IF ~part.ok THEN [t EXCEPT !.st = "raised", !.exc = part.exc]
    ELSE IF t.pos = NumEdges THEN [t EXCEPT !.st = "increment", !.query = part.value]
    ELSE [t EXCEPT !.query = part.value, !.pos = @ + 1]

\* The task's loop swallowing the exception of an edge and going on to the next.
AfterPartKeepGoing(t, part) ==
    IF ~part.ok THEN [t EXCEPT !.exc = part.exc, !.pos = @ + 1]
    ELSE [t EXCEPT !.st = "increment", !.query = part.value]

\* _parallel_translate_task, one edge: query = _translate_sequence_part(...),
\* whose exception ends the task, followed by progress.increment().
AfterPart(t, part) ==
    IF ~part.ok THEN [t EXCEPT !.st = "raised", !.exc = part.exc]
    ELSE [t EXCEPT !.st = "increment", !.query = part.value]

\* The collecting loop keeping only the latest exception.
CollectedLastCause(res, excs, f) ==
    IF f.st = "done" THEN <<Append(res, f.query), excs>>
    ELSE <<Append(res, None), <<f.exc>>>>

\* try: results.append(f.result()) except Exception as e:
\*      results.append(None); exceptions.append(e)
Collected(res, excs, f) ==
    IF f.st = "done" THEN <<Append(res, f.query), excs>>
    ELSE <<Append(res, None), Append(excs, f.exc)>>

Complete(f) == f.st \in {"done", "raised"}

\* Task i has just finished while an earlier submitted task has not.
Overtakes(i, fs) ==
    /\ Complete(fs[i])
    /\ \E j \in 1..(i - 1) : ~Complete(fs[j])

IdlePar ==
    /\ queries = <<>>
    /\ capability = <<>>
    /\ pool_size = 1
    /\ callback = FALSE
    /\ futures = <<>>
    /\ results = <<>>
    /\ exceptions = <<>>
    /\ progress = [state |-> 0, end |-> 0]
    /\ notified = <<>>
    /\ outcome = [kind |-> "none"]
    /\ overtook = FALSE
    /\ parPc = "idle"

RECURSIVE SeqsUpTo(_, _)
SeqsUpTo(S, n) ==
    IF n = 0 THEN {<<>>}
    ELSE LET shorter == SeqsUpTo(S, n - 1)
         IN  shorter \cup {Append(s, c) : s \in {t \in shorter : Len(t) = n - 1}, c \in S}

\* A call parallel_sequenced_translate(queries, sequence, pool_size=, callback=):
\* capability[j] tells whether edge j of the sequence has a translation.
StartPar ==
    /\ queries \in SeqsUpTo(Texts, MaxQueries)
    /\ capability \in SeqsUpTo(BOOLEAN, MaxEdges)
    /\ pool_size \in 1..MaxPool
    /\ callback \in BOOLEAN
    /\ futures = <<>>
    /\ results = <<>>
    /\ exceptions = <<>>
    /\ progress = [state |-> 0, end |-> 0]
    /\ notified = <<>>
    /\ outcome = [kind |-> "none"]
    /\ overtook = FALSE
    /\ parPc = "start"

\* end=len(queries)*len(sequence): the nodes counted instead of the edges.
CounterEndNodes == NumQueries * (NumEdges + 1)

\* end=len(queries)*(len(sequence)-1)
CounterEnd == NumQueries * NumEdges

\* progress = ProgressCounter(end=..., callback=callback); callback(progress)
ParBegin ==
    /\ parPc = "start"
    /\ progress' = [state |-> 0, end |-> CounterEnd]
    /\ notified' = Notify(notified, progress')
    /\ parPc' = "submit"
    /\ UNCHANGED <<queries, capability, pool_size, callback, futures, results,
                   exceptions, outcome, overtook>>
    /\ UNCHANGED <<splitVars, planVars, validVars, chainVars, segVars, instVars>>

\* futures = [pool.submit(...) for q in queries], one submission
ParSubmit ==
    /\ parPc = "submit"
    /\ Len(futures) < NumQueries
    /\ futures' = Append(futures, Submitted(Len(futures) + 1))
    /\ UNCHANGED <<queries, capability, pool_size, callback, results, exceptions,
                   progress, notified, outcome, parPc, overtook>>
    /\ UNCHANGED <<splitVars, planVars, validVars, chainVars, segVars, instVars>>

\* results = []; exceptions = []
ParSubmitted ==
    /\ parPc = "submit"
    /\ Len(futures) = NumQueries
    /\ results' = <<>>
    /\ exceptions' = <<>>
    /\ parPc' = "collect"
    /\ UNCHANGED <<queries, capability, pool_size, callback, futures, progress,
                   notified, outcome, overtook>>
    /\ UNCHANGED <<splitVars, planVars, validVars, chainVars, segVars, instVars>>

WorkerTake(i) ==
    /\ CanStart(i)
    /\ futures' = [futures EXCEPT ![i].st = "translate"]
    /\ UNCHANGED <<queries, capability, pool_size, callback, results, exceptions,
                   progress, notified, outcome, parPc, overtook>>
    /\ UNCHANGED <<splitVars, planVars, validVars, chainVars, segVars, instVars>>

\* for translation, langs in ...: query = _translate_sequence_part(...)
TaskTranslate(i) ==
    /\ futures[i].st = "translate"
    /\ futures[i].pos <= NumEdges
    /\ \E raises \in BOOLEAN :
         futures' = [futures EXCEPT ![i] =
             AfterPart(@, _translate_sequence_part(@.query, @.pos, raises))]
    /\ UNCHANGED <<queries, capability, pool_size, callback, results, exceptions,
                   progress, notified, outcome, parPc>>
    /\ overtook' = (overtook \/ Overtakes(i, futures'))
    /\ UNCHANGED <<splitVars, planVars, validVars, chainVars, segVars, instVars>>

\* progress.increment()
TaskIncrement(i) ==
    /\ futures[i].st = "increment"
    /\ progress' = increment(progress)
    /\ notified' = Notify(notified, progress')
    /\ futures' = [futures EXCEPT ![i].st = "translate", ![i].pos = @ + 1]
    /\ UNCHANGED <<queries, capability, pool_size, callback, results, exceptions,
                   outcome, parPc, overtook>>
    /\ UNCHANGED <<splitVars, planVars, validVars, chainVars, segVars, instVars>>

\* return query
TaskReturn(i) ==
    /\ futures[i].st = "translate"
    /\ futures[i].pos > NumEdges
    /\ futures' = [futures EXCEPT ![i].st = "done"]
    /\ UNCHANGED <<queries, capability, pool_size, callback, results, exceptions,
                   progress, notified, outcome, parPc>>
    /\ overtook' = (overtook \/ Overtakes(i, futures'))
    /\ UNCHANGED <<splitVars, planVars, validVars, chainVars, segVars, instVars>>

\* for f in futures: f.result() waits for that future
ParCollect ==
    /\ parPc = "collect"
    /\ Len(results) < NumQueries
    /\ LET f == futures[Len(results) + 1]
       IN  /\ Complete(f)
           /\ results' = Collected(results, exceptions, f)[1]
           /\ exceptions' = Collected(results, exceptions, f)[2]
    /\ UNCHANGED <<queries, capability, pool_size, callback, futures, progress,
                   notified, outcome, parPc, overtook>>
    /\ UNCHANGED <<splitVars, planVars, validVars, chainVars, segVars, instVars>>

\* if len(exceptions) > 0: raise PartiallyFailedTranslation(..., exceptions, results)
ParRaise ==
    /\ parPc = "collect"
    /\ Len(results) >= NumQueries
    /\ Len(exceptions) > 0
    /\ outcome' = [kind |-> "raised", causes |-> exceptions, results |-> results]
    /\ parPc' = "exit"
    /\ UNCHANGED <<queries, capability, pool_size, callback, futures, results,
                   exceptions, progress, notified, overtook>>
    /\ UNCHANGED <<splitVars, planVars, validVars, chainVars, segVars, instVars>>

\* return [f.result() for f in futures]
ParReturn ==
    /\ parPc = "collect"
    /\ Len(results) >= NumQueries
    /\ Len(exceptions) = 0
    /\ outcome' = [kind |-> "returned",
                   value |-> [i \in 1..Len(futures) |-> futures[i].query]]
    /\ parPc' = "exit"
    /\ UNCHANGED <<queries, capability, pool_size, callback, futures, results,
                   exceptions, progress, notified, overtook>>
    /\ UNCHANGED <<splitVars, planVars, validVars, chainVars, segVars, instVars>>

\* leaving the with block: pool.shutdown(wait=True)
ParExit ==
    /\ parPc = "exit"
    /\ \A i \in 1..Len(futures) : Complete(futures[i])
    /\ parPc' = "finished"
    /\ UNCHANGED <<queries, capability, pool_size, callback, futures, results,
                   exceptions, progress, notified, outcome, overtook>>
    /\ UNCHANGED <<splitVars, planVars, validVars, chainVars, segVars, instVars>>

NextPar ==
    \/ ParBegin
    \/ ParSubmit
    \/ ParSubmitted
    \/ \E i \in 1..Len(futures) : WorkerTake(i)
    \/ \E i \in 1..Len(futures) : TaskTranslate(i)
    \/ \E i \in 1..Len(futures) : TaskIncrement(i)
    \/ \E i \in 1..Len(futures) : TaskReturn(i)
    \/ ParCollect
    \/ ParRaise
    \/ ParReturn
    \/ ParExit

----------------------------------------------------------------------------
(* get_random_sequence: the sequence planner *)

Nodes == {"A", "B", "C"}

\* The candidate filter keeping the edges that land on disabled nodes.
CandidatesWithDisabled(node) ==
    {n \in Nodes : /\ <<node, n>> \in graph
                   /\ (allow_self_translation \/ n # node)}

\* The candidate filter keeping the edge back to node itself.
CandidatesWithSelf(node) ==
    {n \in Nodes : /\ <<node, n>> \in graph
                   /\ n \notin disabled_languages}

\* The outbound edges of node that may be chosen: none landing on a disabled
\* node, and, when self translation is not allowed, none back to node itself.
Candidates(node) ==
    {n \in Nodes : /\ <<node, n>> \in graph
                   /\ n \notin disabled_languages
                   /\ (allow_self_translation \/ n # node)}

\* A call of the walk at node: its choice set, nothing chosen yet.
Frame(node) == [node |-> node, cands |-> Candidates(node), chosen |-> node]

\* The random picks left to the call at the top of the stack: a sequence of
\* steps translations goes over steps - 1 picked languages before the end.
Remaining == steps - Len(stack)

Top == stack[Len(stack)]

\* Dead branch caught by a caller that retries without striking the candidate.
UnwoundNoStrike ==
    IF Len(stack) = 1 THEN <<>> ELSE SubSeq(stack, 1, Len(stack) - 1)

\* Dead branch raised by the top call: the caller strikes the candidate it had
\* chosen and retries; with no caller the search fails.
Unwound ==
    IF Len(stack) = 1 THEN <<>>
    ELSE LET caller == stack[Len(stack) - 1]
         IN  Append(SubSeq(stack, 1, Len(stack) - 2),
                    [caller EXCEPT !.cands = @ \ {caller.chosen}])

IdlePlan ==
    /\ graph = {}
    /\ start = "A"
    /\ end = "A"
    /\ steps = 1
    /\ disabled_languages = {}
    /\ allow_self_translation = TRUE
    /\ stack = <<>>
    /\ sequence = <<>>
    /\ planPc = "idle"

\* A call get_random_sequence(start, end, steps, disabled_languages=,
\* allow_self_translation=) on some capability graph.
StartPlan ==
    /\ graph \in SUBSET (Nodes \X Nodes)
    /\ start \in Nodes
    /\ end \in Nodes
    /\ steps \in 1..MaxSteps
    /\ disabled_languages \in {d \in SUBSET Nodes : Cardinality(d) <= MaxDisabled}
    /\ allow_self_translation \in BOOLEAN
    /\ stack = <<Frame(start)>>
    /\ sequence = <<>>
    /\ planPc = "search"

\* No candidate is left: dead branch.
PlanDeadBranch ==
    /\ planPc = "search"
    /\ Top.cands = {}
    /\ stack' = Unwound
    /\ planPc' = IF Len(stack) = 1 THEN "dead" ELSE "search"
    /\ UNCHANGED <<graph, start, end, steps, disabled_languages,
                   allow_self_translation, sequence>>
    /\ UNCHANGED <<splitVars, parVars, validVars, chainVars, segVars, instVars>>

\* No pick is left and end is directly reachable: the suffix [node, end] is
\* returned and every caller prepends its own node.
PlanClose ==
    /\ planPc = "search"
    /\ Top.cands # {}
    /\ Remaining = 0
    /\ <<Top.node, end>> \in graph
    /\ sequence' = [i \in 1..Len(stack) |-> stack[i].node] \o <<end>>
    /\ stack' = <<>>
    /\ planPc' = "returned"
    /\ UNCHANGED <<graph, start, end, steps, disabled_languages,
                   allow_self_translation>>
    /\ UNCHANGED <<splitVars, parVars, validVars, chainVars, segVars, instVars>>

\* No pick is left and end is not reachable from here: dead branch.
PlanMiss ==
    /\ planPc = "search"
    /\ Top.cands # {}
    /\ Remaining = 0
    /\ <<Top.node, end>> \notin graph
    /\ stack' = Unwound
    /\ planPc' = IF Len(stack) = 1 THEN "dead" ELSE "search"
    /\ UNCHANGED <<graph, start, end, steps, disabled_languages,
                   allow_self_translation, sequence>>
    /\ UNCHANGED <<splitVars, parVars, validVars, chainVars, segVars, instVars>>

\* A candidate is picked at random and the walk recurses into it.
PlanPick ==
    /\ planPc = "search"
    /\ Top.cands # {}
    /\ Remaining > 0
    /\ \E c \in Top.cands :
         stack' = Append([stack EXCEPT ![Len(stack)].chosen = c], Frame(c))
    /\ UNCHANGED <<graph, start, end, steps, disabled_languages,
                   allow_self_translation, sequence, planPc>>
    /\ UNCHANGED <<splitVars, parVars, validVars, chainVars, segVars, instVars>>

NextPlan ==
    \/ PlanDeadBranch
    \/ PlanClose
    \/ PlanMiss
    \/ PlanPick

----------------------------------------------------------------------------
(* split_into_parts *)

\* The while loop of _join_up_to_length, from (result, used_join_char, segments).
RECURSIVE JoinLoop(_, _, _, _, _)
JoinLoop(result, used_join_char, segments, join_char, length) ==
    IF Len(segments) > 0
       /\ Len(result) + Len(used_join_char) + Len(segments[1]) <= length
    THEN JoinLoop(result \o used_join_char \o segments[1], <<join_char>>,
                  Tail(segments), join_char, length)
    ELSE <<result, segments>>

\* _join_up_to_length with the join character left out of the length test.
RECURSIVE JoinLoopNoSep(_, _, _, _, _)
JoinLoopNoSep(result, used_join_char, segments, join_char, length) ==
    IF Len(segments) > 0 /\ Len(result) + Len(segments[1]) <= length
    THEN JoinLoopNoSep(result \o used_join_char \o segments[1], <<join_char>>,
                       Tail(segments), join_char, length)
    ELSE <<result, segments>>

JoinUpToLengthNoSep(segments, join_char, length) ==
    JoinLoopNoSep(<<>>, <<>>, segments, join_char, length)

\* _join_up_to_length testing the length of the result before a segment is
\* added to it.
RECURSIVE JoinLoopLate(_, _, _, _, _)
JoinLoopLate(result, used_join_char, segments, join_char, length) ==
    IF Len(segments) > 0 /\ Len(result) <= length
    THEN JoinLoopLate(result \o used_join_char \o segments[1], <<join_char>>,
                      Tail(segments), join_char, length)
    ELSE <<result, segments>>

JoinUpToLengthLate(segments, join_char, length) ==
    JoinLoopLate(<<>>, <<>>, segments, join_char, length)

\* _join_up_to_length reading the segments it joins without taking them off
\* the list.
JoinUpToLengthKeepsSegments(segments, join_char, length) ==
    <<JoinLoop(<<>>, <<>>, segments, join_char, length)[1], segments>>

_join_up_to_length(segments, join_char, length) ==
    JoinLoop(<<>>, <<>>, segments, join_char, length)

Last(s) == s[Len(s)]

\* paragraphs[-1] = current_line: the open paragraph replaced, not extended.
AppendToLastOverwrite(ps, line) == [ps EXCEPT ![Len(ps)] = line]

AppendToLast(ps, line) == [ps EXCEPT ![Len(ps)] = @ \o line]

IdleSplit ==
    /\ text = <<>>
    /\ target_length = 1
    /\ parsable_lines = <<>>
    /\ paragraphs = <<>>
    /\ origin = <<>>
    /\ splitPc = "idle"

StartSplit ==
    /\ text \in StringsUpTo(MaxLen)
    /\ target_length \in 1..MaxTarget
    /\ parsable_lines = splitlines(text)
    /\ paragraphs = <<<<>>>>
    /\ origin = <<"open">>
    /\ splitPc = "loop"

\* len(current_line) + len(paragraphs[-1]) <= target_length
SplitAppend ==
    /\ splitPc = "loop"
    /\ Len(parsable_lines) > 0
    /\ LET current_line == Head(parsable_lines)
       IN  /\ Len(current_line) + Len(Last(paragraphs)) <= target_length
           /\ paragraphs' = AppendToLast(paragraphs, current_line)
           /\ parsable_lines' = Tail(parsable_lines)
    /\ UNCHANGED <<text, target_length, origin, splitPc>>
    /\ UNCHANGED <<parVars, planVars, validVars, chainVars, segVars, instVars>>

\* elif len(current_line) <= target_length
SplitNewParagraph ==
    /\ splitPc = "loop"
    /\ Len(parsable_lines) > 0
    /\ LET current_line == Head(parsable_lines)
       IN  /\ ~(Len(current_line) + Len(Last(paragraphs)) <= target_length)
           /\ Len(current_line) <= target_length
           /\ paragraphs' = Append(paragraphs, current_line)
           /\ origin' = Append(origin, "line")
           /\ parsable_lines' = Tail(parsable_lines)
    /\ UNCHANGED <<text, target_length, splitPc>>
    /\ UNCHANGED <<parVars, planVars, validVars, chainVars, segVars, instVars>>

\* else: ... if len(new_paragraph) == 0: hard cut at target_length
SplitCut ==
    /\ splitPc = "loop"
    /\ Len(parsable_lines) > 0
    /\ LET current_line == Head(parsable_lines)
           joined == _join_up_to_length(split(current_line, SP), SP, target_length)
       IN  /\ ~(Len(current_line) + Len(Last(paragraphs)) <= target_length)
           /\ ~(Len(current_line) <= target_length)
           /\ Len(joined[1]) = 0
           /\ paragraphs' = Append(paragraphs, Take(current_line, target_length))
           /\ origin' = Append(origin, "cut")
           /\ parsable_lines' = <<Drop(current_line, target_length)>> \o Tail(parsable_lines)
    /\ UNCHANGED <<text, target_length, splitPc>>
    /\ UNCHANGED <<parVars, planVars, validVars, chainVars, segVars, instVars>>

\* else: ... else: the greedy token prefix becomes a paragraph
SplitTokens ==
    /\ splitPc = "loop"
    /\ Len(parsable_lines) > 0
    /\ LET current_line == Head(parsable_lines)
           joined == _join_up_to_length(split(current_line, SP), SP, target_length)
       IN  /\ ~(Len(current_line) + Len(Last(paragraphs)) <= target_length)
           /\ ~(Len(current_line) <= target_length)
           /\ Len(joined[1]) # 0
           /\ paragraphs' = Append(paragraphs, joined[1])
           /\ origin' = Append(origin, "tokens")
           /\ parsable_lines' = <<join(SP, joined[2])>> \o Tail(parsable_lines)
    /\ UNCHANGED <<text, target_length, splitPc>>
    /\ UNCHANGED <<parVars, planVars, validVars, chainVars, segVars, instVars>>

\* return paragraphs
SplitReturn ==
    /\ splitPc = "loop"
    /\ Len(parsable_lines) = 0
    /\ splitPc' = "returned"
    /\ UNCHANGED <<text, target_length, parsable_lines, paragraphs, origin>>
    /\ UNCHANGED <<parVars, planVars, validVars, chainVars, segVars, instVars>>

NextSplit ==
    \/ SplitAppend
    \/ SplitNewParagraph
    \/ SplitCut
    \/ SplitTokens
    \/ SplitReturn

InitSplit ==
    StartSplit /\ IdlePar /\ IdlePlan /\ IdleValid /\ IdleChain /\ IdleSeg /\ IdleInst

SpecSplit == InitSplit /\ [][NextSplit]_vars

\* The loop of split_into_parts runs in one thread that is never held back.
SpecSplitFair == InitSplit /\ [][NextSplit]_vars /\ WF_vars(NextSplit)

\* C3: the segments returned by split_into_parts, concatenated in list order,
\* are exactly the original text.
SplitExact == splitPc = "returned" => concat(paragraphs) = text

\* C4: every segment is at most target_length long, and a segment made by the
\* hard character cut is exactly target_length long.
SplitBounded ==
    \A i \in 1..Len(paragraphs) :
        /\ Len(paragraphs[i]) <= target_length
        /\ origin[i] = "cut" => Len(paragraphs[i]) = target_length

\* A returned split holding a hard-cut segment and a token-prefix segment.
SplitBoundedWitness ==
    /\ splitPc = "returned"
    /\ \E i, j \in 1..Len(paragraphs) : origin[i] = "cut" /\ origin[j] = "tokens"

InitPar ==
    StartPar /\ IdleSplit /\ IdlePlan /\ IdleValid /\ IdleChain /\ IdleSeg /\ IdleInst

SpecPar == InitPar /\ [][NextPar]_vars

\* The main thread and the worker threads are scheduled by the operating
\* system: a step that stays possible is eventually taken.
SpecParFair == InitPar /\ [][NextPar]_vars /\ WF_vars(NextPar)

InitPlan ==
    StartPlan /\ IdleSplit /\ IdlePar /\ IdleValid /\ IdleChain /\ IdleSeg /\ IdleInst

SpecPlan == InitPlan /\ [][NextPlan]_vars

\* The call runs on its own thread and is never suspended for good.
SpecPlanFair == InitPlan /\ [][NextPlan]_vars /\ WF_vars(NextPlan)

----------------------------------------------------------------------------
(* Properties of parallel_sequenced_translate *)

Failed == {i \in 1..Len(futures) : futures[i].st = "raised"}
Expected(i) == Chain(Text(queries[i]), NumEdges)

\* C1: when no task fails the call returns a list as long as queries whose
\* element i is the output of the task given queries[i], whatever the order
\* in which the tasks completed.
ParOrdered ==
    (parPc = "finished" /\ Failed = {}) =>
        /\ outcome.kind = "returned"
        /\ Len(outcome.value) = NumQueries
        /\ \A i \in 1..NumQueries : outcome.value[i] = Expected(i)

\* A return of three outputs, not all equal, after a task overtook an earlier one.
ParOrderedWitness ==
    /\ parPc = "finished"
    /\ outcome.kind = "returned"
    /\ NumQueries = 3
    /\ NumEdges = 2
    /\ queries[2] # queries[3]
    /\ overtook

\* The exceptions of the failed tasks, in submission order.
RECURSIVE CausesUpTo(_)
CausesUpTo(n) ==
    IF n = 0 THEN <<>>
    ELSE IF n \in Failed THEN Append(CausesUpTo(n - 1), futures[n].exc)
    ELSE CausesUpTo(n - 1)

\* C2: when k >= 1 of the n tasks fail, the call raises PartiallyFailedTranslation
\* with exactly k causes and n results, None at exactly the failed indices and
\* each succeeded segment's own output at the others.
ParPartial ==
    (parPc = "finished" /\ Failed # {}) =>
        /\ outcome.kind = "raised"
        /\ Len(outcome.causes) = Cardinality(Failed)
        /\ outcome.causes = CausesUpTo(NumQueries)
        /\ Len(outcome.results) = NumQueries
        /\ \A i \in 1..NumQueries :
              /\ i \in Failed => outcome.results[i] = None
              /\ i \notin Failed => outcome.results[i] = Expected(i)

\* Two of three tasks failed, the first and the last, and the middle one succeeded.
ParPartialWitness ==
    /\ parPc = "finished"
    /\ outcome.kind = "raised"
    /\ NumQueries = 3
    /\ Failed = {1, 3}
    /\ NumEdges = 2

\* Task i ran its own loop to its end: it returned the full chain of its own
\* query, or it raised at the edge it had reached with its own text there.
RanToEnd(i) ==
    LET f == futures[i]
    IN  \/ f.st = "done" /\ f.query = Expected(i)
        \/ /\ f.st = "raised"
           /\ f.exc.kind \in {"InvalidTranslationError", "TranslationFailedError"}
           /\ f.exc.edge = f.pos
           /\ f.exc.query = Chain(Text(queries[i]), f.pos - 1)
           /\ (f.exc.kind = "InvalidTranslationError") <=> ~capability[f.pos]

\* C5: a failure never cancels, skips or blocks another task: when the call
\* returns or raises every submitted task has run to its own completion or
\* failure, each success holding what it would hold had nothing failed; and
\* until the call ends some step can always be taken.
ParIsolated ==
    /\ outcome.kind # "none" =>
          /\ Len(futures) = NumQueries
          /\ \A i \in 1..NumQueries : RanToEnd(i)
    /\ parPc \notin {"idle", "finished"} => ENABLED NextPar

\* One worker: the first task failed, and the tasks queued behind it ran and succeeded.
ParIsolatedWitness ==
    /\ parPc = "finished"
    /\ pool_size = 1
    /\ NumQueries = 3
    /\ NumEdges = 2
    /\ Failed = {1}
    /\ futures[1].exc.kind = "TranslationFailedError"

RECURSIVE SuccessfulEdges(_)
SuccessfulEdges(n) ==
    IF n = 0 THEN 0
    ELSE SuccessfulEdges(n - 1)
         + (IF futures[n].st = "done" THEN NumEdges ELSE futures[n].exc.edge - 1)

AllTasksFinished ==
    /\ parPc \notin {"idle", "start"}
    /\ Len(futures) = NumQueries
    /\ \A i \in 1..NumQueries : Complete(futures[i])

----------------------------------------------------------------------------
(* Properties of get_random_sequence *)

\* C7: a returned sequence has steps + 1 nodes, begins with start, ends with
\* end, every consecutive pair is an edge of the graph, and no node other than
\* the final end is a disabled node landed on.
PlanShape ==
    planPc = "returned" =>
        /\ Len(sequence) = steps + 1
        /\ sequence[1] = start
        /\ sequence[steps + 1] = end
        /\ \A i \in 1..steps : <<sequence[i], sequence[i + 1]>> \in graph
        /\ \A i \in 2..steps : sequence[i] \notin disabled_languages

\* A returned three-step sequence on a graph that has an edge into a disabled
\* node from the start, with the end itself disabled.
PlanShapeWitness ==
    /\ planPc = "returned"
    /\ steps = 3
    /\ end \in disabled_languages
    /\ \E n \in disabled_languages : <<start, n>> \in graph

\* C10: with self translation not allowed, no edge of a returned sequence
\* before the closing edge into end goes from a node to itself.
PlanNoSelfLoop ==
    (planPc = "returned" /\ ~allow_self_translation) =>
        \A i \in 1..(steps - 1) : sequence[i] # sequence[i + 1]

\* A returned three-step sequence, self translation not allowed, on a graph
\* where every node of the sequence has a self edge.
PlanNoSelfLoopWitness ==
    /\ planPc = "returned"
    /\ ~allow_self_translation
    /\ steps = 3
    /\ \A i \in 1..Len(sequence) : <<sequence[i], sequence[i]>> \in graph

\* The sequences the planner is allowed to return: see C7 and C10.
Admissible(p) ==
    /\ p[1] = start
    /\ p[steps + 1] = end
    /\ \A i \in 1..steps : <<p[i], p[i + 1]>> \in graph
    /\ \A i \in 2..steps : p[i] \notin disabled_languages
    /\ ~allow_self_translation => \A i \in 1..(steps - 1) : p[i] # p[i + 1]

AdmissiblePaths == {p \in [1..(steps + 1) -> Nodes] : Admissible(p)}

\* C8: the search fails with a dead branch only when the graph has no
\* admissible path of exactly steps edges from start to end.
PlanComplete == planPc = "dead" => AdmissiblePaths = {}
\* The call has returned a sequence or failed with a dead branch.
PlanDone == planPc \in {"returned", "dead"}

\* The graph whose only edge is A -> B, asked for a two-step sequence from A to C.
DeadEndScenario ==
    /\ graph = {<<"A", "B">>}
    /\ start = "A"
    /\ end = "C"
    /\ steps = 2
    /\ planPc # "idle"

\* C9: every call of the planner ends, with a sequence or with a dead branch;
\* on the graph whose only edge is A -> B the call for (A, C, 2) ends with a
\* dead branch.
PlanTerminates ==
    /\ (planPc = "search") ~> PlanDone
    /\ DeadEndScenario ~> (planPc = "dead")

\* The dead-end scenario has ended with a dead branch.
PlanTerminatesWitness == DeadEndScenario /\ planPc = "dead"

----------------------------------------------------------------------------
(* Further properties of split_into_parts *)

\* The head of the queue is a line of the input, not a requeued remainder:
\* remainders are requeued at the head and are shorter than the line they
\* come from, so the queue is then a suffix of the input's lines.
HeadIsInputLine ==
    LET lines == splitlines(text)
        n == Len(parsable_lines)
    IN  /\ n > 0
        /\ n <= Len(lines)
        /\ parsable_lines = SubSeq(lines, Len(lines) - n + 1, Len(lines))

\* No step changes what a paragraph already holds.
ParagraphsKept ==
    \A i \in 1..Len(paragraphs) :
        /\ i <= Len(paragraphs')
        /\ Take(paragraphs'[i], Len(paragraphs[i])) = paragraphs[i]

\* C19: a line of the input that alone fits within target_length is never
\* split: it is appended whole to the open segment when it fits in what is
\* left of it and otherwise starts a new segment whole, and no later step
\* changes what a segment holds.
SplitKeepsLine ==
    [][/\ ParagraphsKept
       /\ (splitPc = "loop" /\ HeadIsInputLine
            /\ Len(Head(parsable_lines)) <= target_length) =>
            LET line == Head(parsable_lines)
            IN  /\ parsable_lines' = Tail(parsable_lines)
                /\ IF Len(line) + Len(Last(paragraphs)) <= target_length
                   THEN /\ Len(paragraphs') = Len(paragraphs)
                        /\ Last(paragraphs') = Last(paragraphs) \o line
                   ELSE paragraphs' = Append(paragraphs, line)]_vars

\* A returned split of a text with a fitting line that started a new segment,
\* a fitting line appended to an open one, and an over-long line.
SplitKeepsLineWitness ==
    /\ splitPc = "returned"
    /\ Len(splitlines(text)) >= 3
    /\ \E i \in 1..Len(origin) : origin[i] = "line"
    /\ \E i \in 1..Len(origin) : origin[i] \in {"cut", "tokens"}
    /\ \E k \in 1..Len(splitlines(text)) : Len(splitlines(text)[k]) <= target_length

\* The number of leading tokens whose join by single spaces fits in n.
GreedyCount(tokens, n) ==
    CHOOSE k \in 0..Len(tokens) :
        /\ Len(join(SP, Take(tokens, k))) <= n
        /\ k < Len(tokens) => Len(join(SP, Take(tokens, k + 1))) > n

\* C20: a hard character cut is made only when a token of the line is longer
\* than target_length; when every token of an over-long line fits, the new
\* segment is the longest prefix of tokens, joined by single spaces, that fits.
SplitCutsOnlyLongTokens ==
    [][(/\ splitPc = "loop"
        /\ Len(parsable_lines) > 0
        /\ Len(Head(parsable_lines)) + Len(Last(paragraphs)) > target_length
        /\ Len(Head(parsable_lines)) > target_length) =>
          LET tokens == split(Head(parsable_lines), SP)
              k == GreedyCount(tokens, target_length)
          IN  \/ \E j \in 1..Len(tokens) : Len(tokens[j]) > target_length
              \/ /\ k >= 1
                 /\ origin' = Append(origin, "tokens")
                 /\ paragraphs' = Append(paragraphs, join(SP, Take(tokens, k)))]_vars

----------------------------------------------------------------------------
(* Further properties of parallel_sequenced_translate *)

\* C16: within one call the counter's total is len(queries) * (len(sequence) - 1),
\* completed never exceeds it, and completed equals it when the call returns
\* normally.
ParTotal ==
    /\ parPc \notin {"idle", "start"} =>
          /\ progress.end = NumQueries * NumEdges
          /\ progress.state <= progress.end
    /\ (parPc = "finished" /\ outcome.kind = "returned") =>
          progress.state = progress.end

\* A normal return of three queries over two edges: six increments.
ParTotalWitness ==
    /\ parPc = "finished"
    /\ outcome.kind = "returned"
    /\ NumQueries = 3
    /\ NumEdges = 2
    /\ progress.state = 6

RECURSIVE IncrementsUpTo(_)
IncrementsUpTo(n) ==
    IF n = 0 THEN 0 ELSE IncrementsUpTo(n - 1) + (futures[n].pos - 1)

\* C17: a task stops at its first failing edge: once an edge of a task has
\* failed the task has raised at that edge and never moves again (no later
\* capability is invoked), and the counter holds one increment for each edge
\* a task has got past, none for the failing edge or any after it.
ParStopsAtFailure ==
    /\ [](\A i \in 1..Len(futures) :
            futures[i].exc # NoExc =>
                futures[i].st = "raised" /\ futures[i].exc.edge = futures[i].pos)
    /\ [](progress.state = IncrementsUpTo(Len(futures)))
    /\ [][\A i \in 1..Len(futures) :
            futures[i].exc # NoExc => futures'[i] = futures[i]]_vars

\* A task failed at its second edge of two while a sibling ran on to the end.
ParStopsAtFailureWitness ==
    /\ parPc = "finished"
    /\ NumEdges = 2
    /\ \E i \in Failed : futures[i].exc.edge = 2
    /\ \E i \in Failed : futures[i].exc.edge = 1
    /\ \E i \in 1..Len(futures) : futures[i].st = "done"

\* C18: the call is deadlock-free and terminates: under fair scheduling every
\* call ends with every submitted task completed or failed, also with more
\* queries than workers, and a started task never waits: its next step is
\* always possible.
ParTerminates ==
    /\ (parPc = "start") ~> (parPc = "finished" /\ AllTasksFinished)
    /\ [](\A i \in 1..Len(futures) :
            futures[i].st \in {"translate", "increment"} =>
                ENABLED (TaskTranslate(i) \/ TaskIncrement(i) \/ TaskReturn(i)))

\* Three queries on one worker have all ended, one of them by failing.
ParTerminatesWitness ==
    /\ parPc = "finished"
    /\ NumQueries = 3
    /\ pool_size = 1
    /\ Cardinality(Failed) = 1
    /\ outcome.kind = "raised"

----------------------------------------------------------------------------
(* identify_invalid_sequence *)

MaxSeqLen == 3

\* from_lang.get_translation(to_lang): the capability of the edge, None
\* (FALSE here) when the installed packages provide none.
get_translation(from_lang, to_lang) == <<from_lang, to_lang>> \in graph

\* zip(sequence[:-1], sequence[1:]) with the pair taken backwards.
IterateBackwards(seq) ==
    [k \in 1..(Len(seq) - 1) |->
        [translation |-> get_translation(seq[k + 1], seq[k]),
         langs |-> <<seq[k + 1], seq[k]>>]]

\* The items the generator yields: the capability of each consecutive pair
\* and the pair itself.
iterate_translate_sequence(seq) ==
    [k \in 1..(Len(seq) - 1) |->
        [translation |-> get_translation(seq[k], seq[k + 1]),
         langs |-> <<seq[k], seq[k + 1]>>]]

StartValid ==
    /\ graph \in SUBSET (Nodes \X Nodes)
    /\ sequence \in SeqsUpTo(Nodes, MaxSeqLen)
    /\ start = "A" /\ end = "A" /\ steps = 0
    /\ disabled_languages = {} /\ allow_self_translation = FALSE
    /\ stack = <<>> /\ planPc = "idle"
    /\ validIdx = 0
    /\ validResult = None
    /\ validPc = "loop"

\* The item enumerate() hands to the loop body at index validIdx.
ValidItem == iterate_translate_sequence(sequence)[validIdx + 1]

\* translation is not None: the loop goes on to the next pair.
ValidStep ==
    /\ validPc = "loop"
    /\ validIdx < Len(sequence) - 1
    /\ ValidItem.translation
    /\ validIdx' = validIdx + 1
    /\ UNCHANGED <<validResult, validPc>>
    /\ UNCHANGED <<splitVars, parVars, planVars, chainVars, segVars, instVars>>

\* translation is None: return i, langs
ValidFound ==
    /\ validPc = "loop"
    /\ validIdx < Len(sequence) - 1
    /\ ~ValidItem.translation
    /\ validResult' = [index |-> validIdx, langs |-> ValidItem.langs]
    /\ validPc' = "returned"
    /\ UNCHANGED validIdx
    /\ UNCHANGED <<splitVars, parVars, planVars, chainVars, segVars, instVars>>

\* The generator is exhausted: the function falls off its end and returns None.
ValidExhausted ==
    /\ validPc = "loop"
    /\ validIdx >= Len(sequence) - 1
    /\ validResult' = None
    /\ validPc' = "returned"
    /\ UNCHANGED validIdx
    /\ UNCHANGED <<splitVars, parVars, planVars, chainVars, segVars, instVars>>

NextValid == ValidStep \/ ValidFound \/ ValidExhausted

InitValid ==
    StartValid /\ IdleSplit /\ IdlePar /\ IdleChain /\ IdleSeg /\ IdleInst

SpecValid == InitValid /\ [][NextValid]_vars

\* The 0-based positions of the consecutive pairs without a capability.
InvalidEdges ==
    {i \in 0..(Len(sequence) - 2) : <<sequence[i + 1], sequence[i + 2]>> \notin graph}

\* C13: identify_invalid_sequence returns (i, (sequence[i], sequence[i+1]))
\* for the smallest 0-based i whose edge has no capability, and None exactly
\* when every consecutive pair of the sequence has a capability.
ValidFirst ==
    validPc = "returned" =>
        /\ validResult = None <=> InvalidEdges = {}
        /\ InvalidEdges # {} =>
              LET i == CHOOSE m \in InvalidEdges : \A n \in InvalidEdges : m <= n
              IN  validResult = [index |-> i,
                                 langs |-> <<sequence[i + 1], sequence[i + 2]>>]

\* A first edge with a capability, then an edge without one whose reverse
\* has one.
ValidFirstWitness ==
    /\ validPc = "returned"
    /\ validResult # None
    /\ validResult.index = 1
    /\ <<validResult.langs[2], validResult.langs[1]>> \in graph

----------------------------------------------------------------------------
(* translate_sequenced *)

\* What a capability raises when it fails; the chain does not look at it.
EngineError == [kind |-> "Exception"]

\* cls(langs[1], langs[0], query): the pair taken backwards.
FromTupleBackwards(cls, langs, q) ==
    [kind |-> cls, from_lang |-> langs[2], to_lang |-> langs[1], query |-> q,
     cause |-> None]

\* TranslationFailedError.from_tuple, inherited by InvalidTranslationError:
\* cls(langs[0], langs[1], query). A new exception has no cause.
from_tuple(cls, langs, q) ==
    [kind |-> cls, from_lang |-> langs[1], to_lang |-> langs[2], query |-> q,
     cause |-> None]

\* raise exc from e
RaiseFrom(exc, e) == [exc EXCEPT !.cause = e]

StartChain ==
    /\ graph \in SUBSET (Nodes \X Nodes)
    /\ sequence \in SeqsUpTo(Nodes, MaxSeqLen)
    /\ start = "A" /\ end = "A" /\ steps = 0
    /\ disabled_languages = {} /\ allow_self_translation = FALSE
    /\ stack = <<>> /\ planPc = "idle"
    /\ tsInput \in {Text(t) : t \in Texts}
    /\ tsQuery = tsInput
    /\ tsIdx = 0
    /\ tsOutcome = NoExc
    /\ tsPc = "loop"

\* The item the loop body works on.
ChainItem == iterate_translate_sequence(sequence)[tsIdx + 1]

\* translation is None: raise InvalidTranslationError.from_tuple(langs, query)
ChainInvalid ==
    /\ tsPc = "loop"
    /\ tsIdx < Len(sequence) - 1
    /\ ~ChainItem.translation
    /\ tsOutcome' = from_tuple("InvalidTranslationError", ChainItem.langs, tsQuery)
    /\ tsPc' = "raised"
    /\ UNCHANGED <<tsInput, tsQuery, tsIdx>>
    /\ UNCHANGED <<splitVars, parVars, planVars, validVars, segVars, instVars>>

\* query = translation.translate(query)
ChainTranslate ==
    /\ tsPc = "loop"
    /\ tsIdx < Len(sequence) - 1
    /\ ChainItem.translation
    /\ tsQuery' = translate(tsIdx + 1, tsQuery)
    /\ tsIdx' = tsIdx + 1
    /\ UNCHANGED <<tsInput, tsOutcome, tsPc>>
    /\ UNCHANGED <<splitVars, parVars, planVars, validVars, segVars, instVars>>

\* translate raises e: raise TranslationFailedError.from_tuple(langs, query) from e
ChainFail ==
    /\ tsPc = "loop"
    /\ tsIdx < Len(sequence) - 1
    /\ ChainItem.translation
    /\ tsOutcome' = RaiseFrom(from_tuple("TranslationFailedError", ChainItem.langs, tsQuery),
                              EngineError)
    /\ tsPc' = "raised"
    /\ UNCHANGED <<tsInput, tsQuery, tsIdx>>
    /\ UNCHANGED <<splitVars, parVars, planVars, validVars, segVars, instVars>>

\* return query
ChainReturn ==
    /\ tsPc = "loop"
    /\ tsIdx >= Len(sequence) - 1
    /\ tsOutcome' = [kind |-> "returned", value |-> tsQuery]
    /\ tsPc' = "returned"
    /\ UNCHANGED <<tsInput, tsQuery, tsIdx>>
    /\ UNCHANGED <<splitVars, parVars, planVars, validVars, segVars, instVars>>

NextChain == ChainInvalid \/ ChainTranslate \/ ChainFail \/ ChainReturn

InitChain ==
    StartChain /\ IdleSplit /\ IdlePar /\ IdleValid /\ IdleSeg /\ IdleInst

SpecChain == InitChain /\ [][NextChain]_vars

\* C14: a chain that reaches an edge without a capability fails with
\* InvalidTranslationError, one whose capability raises fails with
\* TranslationFailedError whose cause is what the capability raised; either
\* error carries the two nodes of the failing edge and the text as it was
\* when the edge was attempted, the output of the edges before it. A chain
\* that returns has met no edge without a capability.
ChainErrors ==
    /\ tsPc = "raised" =>
          LET from_lang == sequence[tsIdx + 1]
              to_lang == sequence[tsIdx + 2]
          IN  /\ \A k \in 1..tsIdx : <<sequence[k], sequence[k + 1]>> \in graph
              /\ tsOutcome.from_lang = from_lang
              /\ tsOutcome.to_lang = to_lang
              /\ tsOutcome.query = Chain(tsInput, tsIdx)
              /\ IF <<from_lang, to_lang>> \in graph
                 THEN tsOutcome.kind = "TranslationFailedError"
                      /\ tsOutcome.cause = EngineError
                 ELSE tsOutcome.kind = "InvalidTranslationError"
                      /\ tsOutcome.cause = None
    /\ tsPc = "returned" => InvalidEdges = {}

\* The second edge fails after the first one translated the text, between
\* two different nodes.
ChainErrorsWitness ==
    /\ tsPc = "raised"
    /\ tsIdx = 1
    /\ tsOutcome.kind = "TranslationFailedError"
    /\ tsOutcome.from_lang # tsOutcome.to_lang
    /\ tsOutcome.query = translate(1, tsInput)

----------------------------------------------------------------------------
(* install_all_packages *)

Codes == {"x", "y", "z"}

\* The packages the index can offer, each a (from_code, to_code) pair.
Catalogue == {<<"x", "y">>, <<"y", "x">>, <<"x", "z">>}

\* A filter that drops a package as soon as one exclusion names it.
KeepUnlessAnyExclusion(package) ==
    /\ package[1] \notin excluded_languages
    /\ package[2] \notin excluded_languages
    /\ package \notin excluded_translations

\* The lambda handed to filter().
Keep(package) ==
    \/ package[1] \notin excluded_languages
    \/ package[2] \notin excluded_languages
    \/ package \notin excluded_translations

StartInst ==
    /\ new_packages \in SUBSET Catalogue
    /\ excluded_languages \in SUBSET Codes
    /\ excluded_translations \in SUBSET Catalogue
    /\ packages = {}
    /\ workers = <<>>
    /\ completed_installs = 0
    /\ reported = <<>>
    /\ installed = {}
    /\ instReturn = None
    /\ instPc = "start"

\* packages = list(filter(...)); completed_installs = 0; pool.map submits one
\* task per package. ThreadPoolExecutor() has min(32, cpu_count + 4) worker
\* threads, more than the catalogue has packages: every task gets a thread.
InstSelect ==
    /\ instPc = "start"
    /\ packages' = {package \in new_packages : Keep(package)}
    /\ completed_installs' = 0
    /\ workers' = [package \in packages' |-> [pc |-> "install", loaded |-> 0]]
    /\ instPc' = IF packages' = {} THEN "return" ELSE "pool"
    /\ UNCHANGED <<new_packages, excluded_languages, excluded_translations,
                   reported, installed, instReturn>>
    /\ UNCHANGED <<splitVars, parVars, planVars, validVars, chainVars, segVars>>

\* package.install() returns.
InstInstall(package) ==
    /\ instPc = "pool"
    /\ workers[package].pc = "install"
    /\ installed' = installed \cup {package}
    /\ workers' = [workers EXCEPT ![package].pc = "load"]
    /\ UNCHANGED <<new_packages, excluded_languages, excluded_translations, packages,
                   completed_installs, reported, instReturn, instPc>>
    /\ UNCHANGED <<splitVars, parVars, planVars, validVars, chainVars, segVars>>

\* package.install() raises: the task ends with the exception, which stays in
\* its future (the iterator of pool.map is never consumed).
InstInstallFails(package) ==
    /\ instPc = "pool"
    /\ workers[package].pc = "install"
    /\ workers' = [workers EXCEPT ![package].pc = "failed"]
    /\ UNCHANGED <<new_packages, excluded_languages, excluded_translations, packages,
                   completed_installs, reported, installed, instReturn, instPc>>
    /\ UNCHANGED <<splitVars, parVars, planVars, validVars, chainVars, segVars>>

\* completed_installs += 1, first half: the thread reads the shared counter.
InstLoad(package) ==
    /\ instPc = "pool"
    /\ workers[package].pc = "load"
    /\ workers' = [workers EXCEPT ![package] = [pc |-> "store", loaded |-> completed_installs]]
    /\ UNCHANGED <<new_packages, excluded_languages, excluded_translations, packages,
                   completed_installs, reported, installed, instReturn, instPc>>
    /\ UNCHANGED <<splitVars, parVars, planVars, validVars, chainVars, segVars>>

\* completed_installs += 1, second half: the thread writes what it read plus one.
InstStore(package) ==
    /\ instPc = "pool"
    /\ workers[package].pc = "store"
    /\ completed_installs' = workers[package].loaded + 1
    /\ workers' = [workers EXCEPT ![package].pc = "callback"]
    /\ UNCHANGED <<new_packages, excluded_languages, excluded_translations, packages,
                   reported, installed, instReturn, instPc>>
    /\ UNCHANGED <<splitVars, parVars, planVars, validVars, chainVars, segVars>>

\* callback(completed_installs, len(packages))
InstCallback(package) ==
    /\ instPc = "pool"
    /\ workers[package].pc = "callback"
    /\ reported' = Append(reported, <<completed_installs, Cardinality(packages)>>)
    /\ workers' = [workers EXCEPT ![package].pc = "done"]
    /\ UNCHANGED <<new_packages, excluded_languages, excluded_translations, packages,
                   completed_installs, installed, instReturn, instPc>>
    /\ UNCHANGED <<splitVars, parVars, planVars, validVars, chainVars, segVars>>

\* The with block is left once every task has ended; return len(packages)
InstReturn ==
    /\ \/ instPc = "return"
       \/ /\ instPc = "pool"
          /\ \A package \in packages : workers[package].pc \in {"done", "failed"}
    /\ instReturn' = Cardinality(packages)
    /\ instPc' = "returned"
    /\ UNCHANGED <<new_packages, excluded_languages, excluded_translations, packages,
                   workers, completed_installs, reported, installed>>
    /\ UNCHANGED <<splitVars, parVars, planVars, validVars, chainVars, segVars>>

NextInst ==
    \/ InstSelect
    \/ \E package \in packages : InstInstall(package)
    \/ \E package \in packages : InstInstallFails(package)
    \/ \E package \in packages : InstLoad(package)
    \/ \E package \in packages : InstStore(package)
    \/ \E package \in packages : InstCallback(package)
    \/ InstReturn

InitInst ==
    StartInst /\ IdleSplit /\ IdlePar /\ IdlePlan /\ IdleValid /\ IdleChain /\ IdleSeg

SpecInst == InitInst /\ [][NextInst]_vars

\* C15: install_all_packages installs no package whose from_code or to_code
\* is an excluded language and no package whose pair is an excluded
\* translation; it selects every other new package, installs each selected
\* package whose install() does not raise, and returns the number selected.
InstExclusions ==
    /\ \A package \in installed :
          /\ package[1] \notin excluded_languages
          /\ package[2] \notin excluded_languages
          /\ package \notin excluded_translations
    /\ instPc = "returned" =>
          /\ \A package \in new_packages :
                KeepUnlessAnyExclusion(package) => package \in packages
          /\ \A package \in packages :
                workers[package].pc # "failed" => package \in installed
          /\ instReturn = Cardinality(packages)

----------------------------------------------------------------------------
(* translate_sequence_segmented *)

\* The texts handed to translate_sequence_segmented: the empty text, one
\* word, two words and two lines.
SegTexts == {<<>>, <<"a">>, <<"a", SP, "a">>, <<"a", LF, "a">>}

\* Two capabilities to translate with: upper case on the odd edges, an
\* appended "!" on the even ones.
Uppercase(s) == [k \in 1..Len(s) |-> IF s[k] = "a" THEN "A" ELSE s[k]]

AppendBang(s) == s \o <<"!">>

Engine(j, s) == IF j % 2 = 1 THEN Uppercase(s) ELSE AppendBang(s)

\* The string a task result stands for: its source sent through the
\* capabilities of the edges it went over.
RECURSIVE Rendered(_, _)
Rendered(t, k) == IF k = 0 THEN t.src ELSE Engine(t.via[k], Rendered(t, k - 1))

Render(t) == Rendered(t, Len(t.via))

\* " ".join(results)
SegJoinedSpaced(rs) == join(SP, [i \in 1..Len(rs) |-> Render(rs[i])])

\* "".join(results)
SegJoined(rs) == concat([i \in 1..Len(rs) |-> Render(rs[i])])

\* The aggregate caught and the segments that did translate joined.
SegResultJoinPartial(out) ==
    IF out.kind = "returned"
    THEN [kind |-> "returned", value |-> SegJoined(out.value)]
    ELSE [kind |-> "returned",
          value |-> SegJoined(SelectSeq(out.results, LAMBDA r : r # None))]

\* How the call of parallel_sequenced_translate ends the function: its list
\* is joined and returned, its exception is not caught and reaches the caller.
SegResult(out) ==
    IF out.kind = "returned"
    THEN [kind |-> "returned", value |-> SegJoined(out.value)]
    ELSE [kind |-> "raised", exc |-> out]

StartSeg ==
    /\ text \in SegTexts
    /\ target_length \in 1..MaxTarget
    /\ parsable_lines = splitlines(text)
    /\ paragraphs = <<<<>>>>
    /\ origin = <<"open">>
    /\ splitPc = "loop"
    /\ queries = <<>>
    /\ capability \in SeqsUpTo(BOOLEAN, MaxEdges)
    /\ pool_size \in 1..MaxPool
    /\ callback \in BOOLEAN
    /\ futures = <<>>
    /\ results = <<>>
    /\ exceptions = <<>>
    /\ progress = [state |-> 0, end |-> 0]
    /\ notified = <<>>
    /\ outcome = [kind |-> "none"]
    /\ overtook = FALSE
    /\ parPc = "idle"
    /\ segOutcome = NoExc
    /\ segPc = "split"

\* queries = split_into_parts(query, max_segment_size) has returned;
\* parallel_sequenced_translate(queries, sequence, ...) is called.
SegCall ==
    /\ segPc = "split"
    /\ splitPc = "returned"
    /\ queries' = paragraphs
    /\ parPc' = "start"
    /\ segPc' = "translate"
    /\ UNCHANGED <<capability, pool_size, callback, futures, results, exceptions,
                   progress, notified, outcome, overtook>>
    /\ UNCHANGED segOutcome
    /\ UNCHANGED <<splitVars, planVars, validVars, chainVars, instVars>>

\* parallel_sequenced_translate has ended: return "".join(results), or its
\* exception leaves the function.
SegEnd ==
    /\ segPc = "translate"
    /\ parPc = "finished"
    /\ segOutcome' = SegResult(outcome)
    /\ segPc' = segOutcome'.kind
    /\ UNCHANGED <<splitVars, parVars, planVars, validVars, chainVars, instVars>>

NextSeg == NextSplit \/ SegCall \/ NextPar \/ SegEnd

InitSeg == StartSeg /\ IdlePlan /\ IdleValid /\ IdleChain /\ IdleInst

SpecSeg == InitSeg /\ [][NextSeg]_vars

\* A segment sent through the capabilities of the first j edges, in order.
RECURSIVE Through(_, _)
Through(s, j) == IF j = 0 THEN s ELSE Engine(j, Through(s, j - 1))

\* The tasks that ended with an exception.
SegFailed == {i \in 1..Len(futures) : futures[i].exc # NoExc}

SegEnded == segPc \in {"returned", "raised"}

\* C11: when no edge is missing and no capability fails,
\* translate_sequence_segmented returns the concatenation, in segment order,
\* of every segment sent through the capabilities in edge order; with upper
\* case on the first edge and an appended "!" on the second, "a a" with
\* size 3 gives "A A!".
SegConcat ==
    /\ (SegEnded /\ SegFailed = {}) => segPc = "returned"
    /\ segPc = "returned" =>
          /\ Len(outcome.value) = Len(paragraphs)
          /\ \A i \in 1..Len(paragraphs) :
                outcome.value[i] = Chain(Text(paragraphs[i]), NumEdges)
          /\ segOutcome.value =
                concat([i \in 1..Len(paragraphs) |-> Through(paragraphs[i], NumEdges)])
          /\ (text = <<"a", SP, "a">> /\ target_length = 3 /\ NumEdges = 2) =>
                segOutcome.value = <<"A", SP, "A", "!">>

\* Two non-empty segments translated over two edges and joined.
SegConcatWitness ==
    /\ segPc = "returned"
    /\ NumEdges = 2
    /\ Len(paragraphs) >= 2
    /\ paragraphs[1] # <<>>
    /\ paragraphs[2] # <<>>

\* C12: translate_sequence_segmented returns no joined string when a task of
\* a segment failed: the aggregate PartiallyFailedTranslation of
\* parallel_sequenced_translate reaches the caller as it was raised, and a
\* string that is returned has one part for every segment.
SegAllOrNothing ==
    /\ segPc = "returned" =>
          /\ SegFailed = {}
          /\ Len(futures) = Len(paragraphs)
          /\ Len(outcome.value) = Len(paragraphs)
    /\ (SegEnded /\ SegFailed # {}) =>
          /\ segPc = "raised"
          /\ segOutcome.kind = "raised"
          /\ segOutcome.exc = outcome
          /\ outcome.kind = "raised"
          /\ Len(outcome.causes) = Cardinality(SegFailed)

\* One segment translated, another failed: the aggregate leaves the function.
SegAllOrNothingWitness ==
    /\ segPc = "raised"
    /\ \E i \in 1..Len(futures) : futures[i].exc = NoExc /\ paragraphs[i] # <<>>
    /\ \E i \in 1..Len(futures) : futures[i].exc # NoExc

----------------------------------------------------------------------------
(* Termination and shape of split_into_parts *)

\* The line taken off the queue goes to the branch for over-long lines.
OverLong ==
    /\ splitPc = "loop"
    /\ Len(parsable_lines) > 0
    /\ Len(Head(parsable_lines)) + Len(Last(paragraphs)) > target_length
    /\ Len(Head(parsable_lines)) > target_length

\* C21: split_into_parts terminates: every pass through the branch for
\* over-long lines puts back a remainder strictly shorter than the line it
\* took off the queue and leaves the rest of the queue alone, every other
\* pass shortens the queue, and the queue empties.
SplitTerminates ==
    /\ (splitPc = "loop") ~> (splitPc = "returned")
    /\ [][OverLong =>
            /\ Len(parsable_lines') = Len(parsable_lines)
            /\ Len(Head(parsable_lines')) < Len(Head(parsable_lines))
            /\ Tail(parsable_lines') = Tail(parsable_lines)]_vars
    /\ [][(splitPc = "loop" /\ Len(parsable_lines) > 0 /\ ~OverLong) =>
            parsable_lines' = Tail(parsable_lines)]_vars

\* A text that went through a hard cut and through a token split has been
\* split to the end.
SplitTerminatesWitness ==
    /\ splitPc = "returned"
    /\ \E i \in 1..Len(origin) : origin[i] = "cut"
    /\ \E i \in 1..Len(origin) : origin[i] = "tokens"

----------------------------------------------------------------------------
(* The shared counter of install_all_packages *)

\* The first values of the pairs handed to the callback.
ReportedCompleted == {reported[i][1] : i \in 1..Len(reported)}

\* Every selected package was installed without an exception.
AllInstalled ==
    /\ instPc = "returned"
    /\ \A package \in packages : workers[package].pc = "done"

\* C22: the counter shared by the worker threads loses no update: after n
\* successful installs the callback has been called n times, with the
\* distinct completed values 1..n and the total n each time, and the counter
\* (the largest value reported) is n.
InstCounts ==
    AllInstalled =>
        LET n == Cardinality(packages)
        IN  /\ Len(reported) = n
            /\ ReportedCompleted = 1..n
            /\ \A i \in 1..Len(reported) : reported[i][2] = n
            /\ completed_installs = n

----------------------------------------------------------------------------
(* Empty segments of split_into_parts *)

\* The positions of the empty paragraphs.
EmptyParagraphs == {i \in 1..Len(paragraphs) : paragraphs[i] = <<>>}

\* C23: split_into_parts returns at least one segment and only the first
\* one can be the empty string, so that the list, and with it the number of
\* tasks and the progress total, counts at most one empty segment. This
\* holds of the list while it is built as well.
SplitOneEmpty ==
    splitPc \in {"loop", "returned"} =>
        /\ Len(paragraphs) >= 1
        /\ EmptyParagraphs \subseteq {1}
        /\ Cardinality(EmptyParagraphs) <= 1

\* A returned list whose first segment stayed empty, after a token split put
\* an empty remainder back on the queue.
SplitOneEmptyWitness ==
    /\ splitPc = "returned"
    /\ Len(paragraphs) >= 3
    /\ paragraphs[1] = <<>>
    /\ text # <<>> /\ Last(text) = SP
    /\ origin[Len(origin)] = "tokens"

====
